---- MODULE Spec2Model ----
(***************************************************************************)
(* Model of the Telegram fun-chat bot: the per-chat state dictionaries,    *)
(* the slash-command router, the local time/date intent matcher, the Groq  *)
(* completion client and the decision chain of process_message             *)
(* (src/telegram_bot.py).                                                  *)
(*                                                                         *)
(* Texts are sequences of one-character strings, so that strip, split,     *)
(* lower, startswith, substring search and the mention substitution are    *)
(* computed as Python computes them.  Reply texts are sequences of string  *)
(* pieces (the literal parts of the f-string and its formatted values).    *)
(* Python dicts are functions whose DOMAIN is the set of keys present.     *)
(* String literals are written in ASCII: the Vietnamese diacritics and the *)
(* emoji of the source literals are left out.                              *)
(***************************************************************************)
EXTENDS Integers, Sequences, FiniteSets, TLC

VARIABLES
    now,                  \* time.time(), in seconds since BOT_START_TIME's epoch
    BOT_USERNAME,         \* module global, line 25 ("" when not configured)
    BOT_USER_ID,          \* module global, lines 32-38 (0 models None)
    CHAT_HISTORY_LENGTH,  \* module global, lines 28-31
    chat_mute_until,      \* dict chat id -> timestamp, line 89
    chat_mood,            \* dict chat id -> mood key, line 90
    chat_auto_reply_mode, \* dict chat id -> "all" | "mention", line 91
    chat_history,         \* dict chat id -> list of {role, content}, line 94
    update,               \* the update being handled
    decision,             \* the branch of process_message that ended the chain
    outbox,               \* send_telegram_message calls made for that update
    groq_requests,        \* requests.post calls to GROQ_API_URL made for it
    groq_response,        \* what the Groq POST did for it, if one was made
    mute_check,           \* what is_chat_muted returned for it, if it was called
    mute_cmd,             \* per chat: time and minutes of the last successful /mute
    GROQ_API_KEY,         \* module global, line 24 (TRUE when set and not empty)
    TELEGRAM_TOKEN,       \* module global, line 23 (TRUE when set and not empty)
    mood_cmd,             \* per chat: key and reply of the last successful /mood <key>
    serving,              \* which front end runs: polling_bot or webhook_server
    offset,               \* run_polling's offset (0 models None)
    batch,                \* updates of the last fetch that run_polling has yet to handle
    fetch,                \* what the last get_updates call did
    http_status,          \* status of the last response of the webhook view (0: none)
    threads               \* webhook_server's request threads, each inside handle_update

vars == <<now, BOT_USERNAME, BOT_USER_ID, CHAT_HISTORY_LENGTH, chat_mute_until,
          chat_mood, chat_auto_reply_mode, chat_history, update, decision,
          outbox, groq_requests, groq_response, mute_check, mute_cmd, GROQ_API_KEY,
          TELEGRAM_TOKEN, mood_cmd, serving, offset, batch, fetch, http_status,
          threads>>

config == <<BOT_USERNAME, BOT_USER_ID, CHAT_HISTORY_LENGTH, GROQ_API_KEY,
            TELEGRAM_TOKEN>>

store == <<chat_mute_until, chat_mood, chat_auto_reply_mode, chat_history>>

\* The record of the call of handle_update in progress, and of past commands.
call == <<update, decision, outbox, groq_requests, groq_response, mute_check,
          mute_cmd, mood_cmd>>

\* The state of the front ends.
delivery == <<serving, offset, batch, fetch, http_status, threads>>

(***************************************************************************)
(* Bounds of the model.                                                    *)
(***************************************************************************)
\* Largest configured CHAT_HISTORY_LENGTH explored.
MaxHistory == 2

\* Largest number of updates that one getUpdates call returns.
MaxBatch == 2

\* Largest update_id that Telegram hands out.
MaxUpdateId == 4

\* Number of clock steps in one behaviour.
MaxTicks == 4

\* Seconds the clock advances in one step.
TickSeconds == 30

(***************************************************************************)
(* Python dict and truthiness helpers.                                     *)
(***************************************************************************)
DictGet(d, k, default) == IF k \in DOMAIN d THEN d[k] ELSE default

DictSet(d, k, v) == [x \in DOMAIN d \cup {k} |-> IF x = k THEN v ELSE d[x]]

DictPop(d, k) == [x \in DOMAIN d \ {k} |-> d[x]]

\* An empty str, an empty list, None and 0 are all falsy.
Truthy(s) == Len(s) > 0

(***************************************************************************)
(* str methods, on sequences of characters.                                *)
(***************************************************************************)
UPPER == <<"A", "B", "C", "D", "E", "F", "G", "H", "I", "J", "K", "L", "M",
           "N", "O", "P", "Q", "R", "S", "T", "U", "V", "W", "X", "Y", "Z">>

LOWER == <<"a", "b", "c", "d", "e", "f", "g", "h", "i", "j", "k", "l", "m",
           "n", "o", "p", "q", "r", "s", "t", "u", "v", "w", "x", "y", "z">>

LowerChar(c) ==
    IF \E i \in 1..Len(UPPER) : UPPER[i] = c
    THEN LOWER[CHOOSE i \in 1..Len(UPPER) : UPPER[i] = c]
    ELSE c

\* str.lower()
Lower(s) == [i \in 1..Len(s) |-> LowerChar(s[i])]

IsSpace(c) == c \in {" ", "\n", "\t"}

RECURSIVE LStrip(_)
LStrip(s) ==
    IF s = <<>> THEN <<>>
    ELSE IF IsSpace(Head(s)) THEN LStrip(Tail(s)) ELSE s

RECURSIVE RStrip(_)
RStrip(s) ==
    IF s = <<>> THEN <<>>
    ELSE IF IsSpace(s[Len(s)]) THEN RStrip(SubSeq(s, 1, Len(s) - 1)) ELSE s

\* str.strip()
Strip(s) == RStrip(LStrip(s))

\* str.startswith(p)
StartsWith(s, p) == Len(s) >= Len(p) /\ SubSeq(s, 1, Len(p)) = p

\* p in s
Contains(s, p) ==
    \E i \in 1..(Len(s) - Len(p) + 1) : SubSeq(s, i, i + Len(p) - 1) = p

\* The index at which the run of non-whitespace that starts at i ends.
WordEnd(s, i) ==
    IF \E j \in i..Len(s) : IsSpace(s[j])
    THEN (CHOOSE j \in i..Len(s) :
            IsSpace(s[j]) /\ \A k \in i..(j - 1) : ~IsSpace(s[k])) - 1
    ELSE Len(s)

\* str.split(): the maximal runs of non-whitespace, in order.
RECURSIVE Split(_)
Split(s) ==
    LET t == LStrip(s) IN
    IF t = <<>> THEN <<>>
    ELSE LET e == WordEnd(t, 1) IN
         <<SubSeq(t, 1, e)>> \o Split(SubSeq(t, e + 1, Len(t)))

\* sep.join(words)
RECURSIVE Join(_, _)
Join(sep, words) ==
    IF words = <<>> THEN <<>>
    ELSE IF Len(words) = 1 THEN words[1]
    ELSE words[1] \o sep \o Join(sep, Tail(words))

\* str.replace(a, b) for single characters a, b.
Replace(s, a, b) == [i \in 1..Len(s) |-> IF s[i] = a THEN b ELSE s[i]]

\* s.split(c, 1)[0]: the part of s before the first c.
RECURSIVE BeforeFirst(_, _)
BeforeFirst(s, c) ==
    IF s = <<>> \/ Head(s) = c THEN <<>>
    ELSE <<Head(s)>> \o BeforeFirst(Tail(s), c)

DIGITS == <<"0", "1", "2", "3", "4", "5", "6", "7", "8", "9">>

IsDigit(c) == \E i \in 1..Len(DIGITS) : DIGITS[i] = c

DigitValue(c) == (CHOOSE i \in 1..Len(DIGITS) : DIGITS[i] = c) - 1

RECURSIVE DigitsValue(_)
DigitsValue(s) ==
    IF s = <<>> THEN 0
    ELSE DigitsValue(SubSeq(s, 1, Len(s) - 1)) * 10 + DigitValue(s[Len(s)])

\* The digits without their leading zeros.
RECURSIVE StripZeros(_)
StripZeros(s) == IF s # <<>> /\ Head(s) = "0" THEN StripZeros(Tail(s)) ELSE s

\* A float holds less than 1.8 * 10^308: an int of FloatDigits digits or more,
\* times 60, is beyond it, and float() of it raises OverflowError.
FloatDigits == 308

\* int(s): an optional sign and one or more decimal digits, else ValueError.
\* Python's int has no bound; here value is the number when it has fewer than
\* FloatDigits digits (the catalogue keeps those below ten digits), and beyond
\* marks the others, of which only the sign matters.
ParseInt(s) ==
    LET signed == s # <<>> /\ Head(s) \in {"+", "-"}
        body == IF signed THEN Tail(s) ELSE s
        negative == signed /\ Head(s) = "-"
        beyond == Len(StripZeros(body)) >= FloatDigits
    IN  IF body # <<>> /\ \A i \in 1..Len(body) : IsDigit(body[i])
        THEN [ok |-> TRUE,
              value |-> IF beyond THEN (IF negative THEN 0 - 1 ELSE 1)
                        ELSE IF negative THEN 0 - DigitsValue(body)
                        ELSE DigitsValue(body),
              beyond |-> beyond]
        ELSE [ok |-> FALSE, value |-> 0, beyond |-> FALSE]

(***************************************************************************)
(* Module constants of telegram_bot.py.                                    *)
(***************************************************************************)
FALLBACK_MESSAGES ==
    << <<"Haha nghe vui a nha">>,
       <<"Ua gi zo? ke nghe coi">>,
       <<"Bot xiu ngang">>,
       <<"Ghe zo ong ban">>,
       <<"Cai nay coi bo cang a nha">>,
       <<"Cuoi chet me">>,
       <<"Do la mot tro dua tuyet voi!">>,
       <<"Hahahaha, ban lam toi cuoi">>,
       <<"Qua hai huoc roi!">>,
       <<"Dung lam toi cuoi nua, bung dau roi">>,
       <<"Oi hay qua, hay qua!">>,
       <<"Ban that la mot nguoi hai huoc">>,
       <<"Minh thich dieu do!">>,
       <<"Hehe, ban biet cach lam vui long nguoi ta">> >>

SYSTEM_PROMPT ==
    "Ban la bot chat vui ve trong group. Tra loi ngan gon, vui nhon, va than thien. Khong vuot qua 2 cau."

MOOD_VUI == <<"v", "u", "i">>

MOOD_LEM_LINH == <<"l", "e", "m", "_", "l", "i", "n", "h">>

MOOD_CAU_GAT == <<"c", "a", "u", "_", "g", "a", "t">>

\* The keys of MOOD_TONES, in insertion order.
MOOD_KEYS == <<MOOD_VUI, MOOD_LEM_LINH, MOOD_CAU_GAT>>

InMoodTones(key) == \E i \in 1..Len(MOOD_KEYS) : MOOD_KEYS[i] = key

\* MOOD_TONES[key]
MOOD_TONES(key) ==
    IF key = MOOD_VUI
    THEN "Luon vui ve, than thien, dung nhieu emoji de thuong."
    ELSE IF key = MOOD_LEM_LINH
    THEN "Lem linh, ca khia nhe, tung hung di dom nhung khong xuc pham."
    ELSE "Gia vo cau gat, cam ram nhung van hai huoc va khong qua kho chiu."

DEFAULT_MOOD == MOOD_VUI

MOOD_OPTIONS_TEXT == Join(<<",", " ">>, MOOD_KEYS)

VI_DAY_NAMES ==
    <<"Thu Hai", "Thu Ba", "Thu Tu", "Thu Nam", "Thu Sau", "Thu Bay", "Chu Nhat">>

HELP_TEXT ==
    <<"Danh sach lenh:", "\n",
      "/alive - Kiem tra bot con hoat dong.", "\n",
      "/mute <phut> - Tam im lang trong nhom.", "\n",
      "/help - Hien thi cac lenh dieu khien.", "\n",
      "/mood <ten> - Doi mood bot (">> \o MOOD_OPTIONS_TEXT \o <<").", "\n",
      "/autoreply <all|mention> - Bat tat che do tra loi tat ca hay chi khi duoc nhac.", "\n">>
    \o (IF Truthy(BOT_USERNAME)
        THEN <<"Nhac @">> \o BOT_USERNAME \o <<" de goi bot xac nhan.", "\n">>
        ELSE <<>>)

BOT_START_TIME == 0

AUTO_REPLY_ALL == <<"a", "l", "l">>

AUTO_REPLY_MENTION == <<"m", "e", "n", "t", "i", "o", "n">>

MENTION_PING_REPLY == <<"Co mat! Ban can gi ne?">>

\* The literal of BOT_MENTION_PATTERN: "@" + BOT_USERNAME (matched ignoring case).
BOT_MENTION_PATTERN == <<"@">> \o BOT_USERNAME

(***************************************************************************)
(* The per-chat store.                                                     *)
(***************************************************************************)
get_chat_mood(chat_id) == DictGet(chat_mood, chat_id, DEFAULT_MOOD)

\* set_chat_mood going back to the default mood when the chat has the mood
\* already.
set_chat_mood_toggling(chat_id, mood) ==
    DictSet(chat_mood, chat_id,
            IF get_chat_mood(chat_id) = mood THEN DEFAULT_MOOD ELSE mood)

\* chat_mood after set_chat_mood(chat_id, mood)
set_chat_mood(chat_id, mood) == DictSet(chat_mood, chat_id, mood)

build_system_prompt(mood_dict, chat_id) ==
    LET mood_key == DictGet(mood_dict, chat_id, DEFAULT_MOOD)
        tone == IF InMoodTones(mood_key) THEN MOOD_TONES(mood_key)
                ELSE MOOD_TONES(DEFAULT_MOOD)
    IN  <<SYSTEM_PROMPT, "\nMood hien tai: ", tone>>

get_auto_reply_mode(chat_id) ==
    DictGet(chat_auto_reply_mode, chat_id, AUTO_REPLY_ALL)

\* chat_auto_reply_mode after set_auto_reply_mode(chat_id, mode)
set_auto_reply_mode(chat_id, mode) == DictSet(chat_auto_reply_mode, chat_id, mode)

\* del history[len(history) - n:] instead: the newest entries go.
DelSuffix(history, n) == SubSeq(history, 1, Len(history) - n)

\* history[0: n] deleted
DelPrefix(history, n) == SubSeq(history, n + 1, Len(history))

\* chat_history (given as hist) after append_chat_history_entry(chat_id, role, content)
append_chat_history_entry(hist, chat_id, role, content) ==
    IF CHAT_HISTORY_LENGTH <= 0 \/ ~Truthy(content) THEN hist
    ELSE LET history == Append(DictGet(hist, chat_id, <<>>),
                               [role |-> role, content |-> content])
         IN  DictSet(hist, chat_id,
                     IF Len(history) > CHAT_HISTORY_LENGTH
                     THEN DelPrefix(history, Len(history) - CHAT_HISTORY_LENGTH)
                     ELSE history)

\* history_append with the entry appended to the history of every chat.
history_append_to_all(hist, chat_id, role, content) ==
    [c \in DOMAIN hist \cup {chat_id} |->
       Append(DictGet(hist, c, <<>>), [role |-> role, content |-> content])]

\* chat_history (given as hist) after lines 196-197 of append_chat_history_entry:
\* setdefault and append.
history_append(hist, chat_id, role, content) ==
    DictSet(hist, chat_id,
            Append(DictGet(hist, chat_id, <<>>), [role |-> role, content |-> content]))

\* chat_history (given as hist) after lines 198-199 of append_chat_history_entry:
\* the oldest entries beyond CHAT_HISTORY_LENGTH are deleted.
history_trim(hist, chat_id) ==
    LET history == hist[chat_id]
    IN  IF Len(history) > CHAT_HISTORY_LENGTH
        THEN DictSet(hist, chat_id, DelPrefix(history, Len(history) - CHAT_HISTORY_LENGTH))
        ELSE hist

\* record_conversation_turn without the assistant entry of lines 207-208.
record_conversation_turn_user_only(hist, chat_id, user_text, bot_text) ==
    IF CHAT_HISTORY_LENGTH <= 0 THEN hist
    ELSE IF Truthy(user_text)
    THEN append_chat_history_entry(hist, chat_id, "user", user_text)
    ELSE hist

\* chat_history (given as hist) after record_conversation_turn(chat_id, user_text, bot_text)
record_conversation_turn(hist, chat_id, user_text, bot_text) ==
    IF CHAT_HISTORY_LENGTH <= 0 THEN hist
    ELSE LET h1 == IF Truthy(user_text)
                   THEN append_chat_history_entry(hist, chat_id, "user", user_text)
                   ELSE hist
         IN  IF Truthy(bot_text)
             THEN append_chat_history_entry(h1, chat_id, "assistant", bot_text)
             ELSE h1

\* history[-CHAT_HISTORY_LENGTH:]
get_chat_history_messages(hist, chat_id) ==
    IF CHAT_HISTORY_LENGTH <= 0 THEN <<>>
    ELSE LET history == DictGet(hist, chat_id, <<>>)
             first == IF Len(history) > CHAT_HISTORY_LENGTH
                      THEN Len(history) - CHAT_HISTORY_LENGTH + 1 ELSE 1
         IN  SubSeq(history, first, Len(history))

\* is_chat_muted with time.time() > mute_until for the test of line 263.
is_chat_muted_strict(chat_id) ==
    IF chat_id \notin DOMAIN chat_mute_until \/ chat_mute_until[chat_id] = 0
    THEN [result |-> FALSE, chat_mute_until |-> chat_mute_until]
    ELSE IF now > chat_mute_until[chat_id]
    THEN [result |-> FALSE, chat_mute_until |-> DictPop(chat_mute_until, chat_id)]
    ELSE [result |-> TRUE, chat_mute_until |-> chat_mute_until]

\* is_chat_muted with the chat's timestamp removed by every call that finds one.
is_chat_muted_forgetting(chat_id) ==
    IF chat_id \notin DOMAIN chat_mute_until \/ chat_mute_until[chat_id] = 0
    THEN [result |-> FALSE, chat_mute_until |-> chat_mute_until]
    ELSE [result |-> now < chat_mute_until[chat_id],
          chat_mute_until |-> DictPop(chat_mute_until, chat_id)]

\* is_chat_muted(chat_id): what it returns and chat_mute_until after the call.
is_chat_muted(chat_id) ==
    IF chat_id \notin DOMAIN chat_mute_until \/ chat_mute_until[chat_id] = 0
    THEN [result |-> FALSE, chat_mute_until |-> chat_mute_until]
    ELSE IF now >= chat_mute_until[chat_id]
    THEN [result |-> FALSE, chat_mute_until |-> DictPop(chat_mute_until, chat_id)]
    ELSE [result |-> TRUE, chat_mute_until |-> chat_mute_until]

\* set_chat_mute adding the minutes to the time left of a mute that still runs.
set_chat_mute_additive(chat_id, minutes) ==
    LET until == DictGet(chat_mute_until, chat_id, now)
    IN  DictSet(chat_mute_until, chat_id,
                (IF until > now THEN until ELSE now) + (minutes * 60))

\* chat_mute_until after set_chat_mute(chat_id, minutes)
set_chat_mute(chat_id, minutes) ==
    DictSet(chat_mute_until, chat_id, now + (minutes * 60))

(***************************************************************************)
(* extract_text_without_mention                                            *)
(***************************************************************************)
\* Whether the pattern (ignoring case) matches text at position i.
MatchAt(text, i, pat) ==
    /\ i + Len(pat) - 1 <= Len(text)
    /\ \A k \in 1..Len(pat) : LowerChar(text[i + k - 1]) = LowerChar(pat[k])

\* pattern.subn(' ', text) from position i on: every non-overlapping match,
\* leftmost first, replaced by one space, and the number of matches.
RECURSIVE Subn(_, _, _)
Subn(pat, text, i) ==
    IF i > Len(text) THEN [cleaned |-> <<>>, count |-> 0]
    ELSE IF MatchAt(text, i, pat)
    THEN LET r == Subn(pat, text, i + Len(pat))
         IN  [cleaned |-> <<" ">> \o r.cleaned, count |-> r.count + 1]
    ELSE LET r == Subn(pat, text, i + 1)
         IN  [cleaned |-> <<text[i]>> \o r.cleaned, count |-> r.count]

extract_text_without_mention(text) ==
    IF ~Truthy(text) \/ ~Truthy(BOT_USERNAME)
    THEN [cleaned |-> Strip(text), has_mention |-> FALSE]
    ELSE LET r == Subn(BOT_MENTION_PATTERN, text, 1)
         IN  [cleaned |-> Strip(r.cleaned), has_mention |-> r.count > 0]

(***************************************************************************)
(* get_local_intent_reply                                                  *)
(***************************************************************************)
time_keywords ==
    << <<"m", "a", "y", " ", "g", "i", "o">>,
       <<"g", "i", "o", " ", "m", "a", "y">>,
       <<"b", "a", "y", " ", "g", "i", "o", " ", "l", "a", " ", "m", "a", "y", " ", "g", "i", "o">>,
       <<"h", "i", "e", "n", " ", "t", "a", "i", " ", "m", "a", "y", " ", "g", "i", "o">>,
       <<"g", "i", "o", " ", "h", "i", "e", "n", " ", "t", "a", "i">> >>

day_keywords ==
    << <<"t", "h", "u", " ", "m", "a", "y">>,
       <<"h", "o", "m", " ", "n", "a", "y", " ", "l", "a", " ", "t", "h", "u">>,
       <<"n", "a", "y", " ", "l", "a", " ", "t", "h", "u">>,
       <<"h", "o", "m", " ", "n", "a", "y", " ", "n", "g", "a", "y">>,
       <<"n", "g", "a", "y", " ", "m", "a", "y">>,
       <<"n", "g", "a", "y", " ", "b", "a", "o", " ", "n", "h", "i", "e", "u">> >>

\* any(keyword in normalized for keyword in keywords)
AnyKeywordIn(keywords, normalized) ==
    \E i \in 1..Len(keywords) : Contains(normalized, keywords[i])

Pad2(n) == IF n < 10 THEN "0" \o ToString(n) ELSE ToString(n)

IsLeap(y) == (y % 4 = 0 /\ y % 100 # 0) \/ y % 400 = 0

DaysInYear(y) == IF IsLeap(y) THEN 366 ELSE 365

DaysInMonth(y, m) ==
    IF m = 2 THEN (IF IsLeap(y) THEN 29 ELSE 28)
    ELSE IF m \in {4, 6, 9, 11} THEN 30 ELSE 31

\* The calendar date of day number d (0 is 1 January of year y).
RECURSIVE DateFrom(_, _, _)
DateFrom(d, y, m) ==
    IF m = 1 /\ d >= DaysInYear(y) THEN DateFrom(d - DaysInYear(y), y + 1, 1)
    ELSE IF d >= DaysInMonth(y, m) THEN DateFrom(d - DaysInMonth(y, m), y, m + 1)
    ELSE [day |-> d + 1, month |-> m, year |-> y]

\* datetime.now() for the clock value t (seconds since 1 January 1970, a Thursday).
DateTimeNow(t) ==
    LET days == t \div 86400
        date == DateFrom(days, 1970, 1)
    IN  [hour |-> (t \div 3600) % 24, minute |-> (t \div 60) % 60,
         day |-> date.day, month |-> date.month, year |-> date.year,
         weekday |-> (days + 3) % 7]

\* strftime('%H:%M')
StrfHM(dt) == <<Pad2(dt.hour), ":", Pad2(dt.minute)>>

\* strftime('%d/%m/%Y')
StrfDMY(dt) == <<Pad2(dt.day), "/", Pad2(dt.month), "/", ToString(dt.year)>>

\* get_local_intent_reply without the .lower() of line 222.
get_local_intent_reply_case_sensitive(message_text) ==
    IF ~Truthy(message_text) THEN <<>>
    ELSE LET normalized == message_text
             dt == DateTimeNow(now)
         IN  IF AnyKeywordIn(time_keywords, normalized)
             THEN <<"Bay gio la ">> \o StrfHM(dt) \o <<" (ngay ">> \o StrfDMY(dt) \o <<").">>
             ELSE IF AnyKeywordIn(day_keywords, normalized)
             THEN <<"Hom nay ", VI_DAY_NAMES[dt.weekday + 1], ", ngay ">> \o StrfDMY(dt)
             ELSE <<>>

\* The reply, or <<>> for None.
get_local_intent_reply(message_text) ==
    IF ~Truthy(message_text) THEN <<>>
    ELSE LET normalized == Lower(message_text)
             dt == DateTimeNow(now)
         IN  IF AnyKeywordIn(time_keywords, normalized)
             THEN <<"Bay gio la ">> \o StrfHM(dt) \o <<" (ngay ">> \o StrfDMY(dt) \o <<").">>
             ELSE IF AnyKeywordIn(day_keywords, normalized)
             THEN <<"Hom nay ", VI_DAY_NAMES[dt.weekday + 1], ", ngay ">> \o StrfDMY(dt)
             ELSE <<>>

(***************************************************************************)
(* handle_command                                                          *)
(***************************************************************************)
CMD_ALIVE == <<"/", "a", "l", "i", "v", "e">>

CMD_HELP == <<"/", "h", "e", "l", "p">>

CMD_START == <<"/", "s", "t", "a", "r", "t">>

CMD_MUTE == <<"/", "m", "u", "t", "e">>

CMD_MOOD == <<"/", "m", "o", "o", "d">>

CMD_AUTOREPLY == <<"/", "a", "u", "t", "o", "r", "e", "p", "l", "y">>

\* What handle_command returns (reply, <<>> for None) with the store unchanged.
Returned(reply) ==
    [reply |-> reply, chat_mute_until |-> chat_mute_until, chat_mood |-> chat_mood,
     chat_auto_reply_mode |-> chat_auto_reply_mode, muted_for |-> 0,
     mood_set |-> <<>>, raised |-> FALSE]

\* handle_command raising: no reply, the dicts as they are.
Raised == [Returned(<<>>) EXCEPT !.raised = TRUE]

alive_command ==
    LET uptime_seconds == now - BOT_START_TIME
        uptime_display == IF uptime_seconds < 60
                          THEN <<ToString(uptime_seconds), " giay">>
                          ELSE <<ToString(uptime_seconds \div 60), " phut">>
        groq_status == IF GROQ_API_KEY THEN "da san sang" ELSE "chua co GROQ_API_KEY"
    IN  Returned(<<"Bot van song khoe (">> \o uptime_display
                 \o <<"). Groq ", groq_status, ".">>)

\* mute_command with minutes < 0 for the test of line 305.
mute_command_accepts_zero(parts, chat_id) ==
    LET parsed == IF Len(parts) > 1 THEN ParseInt(parts[2])
                  ELSE [ok |-> TRUE, value |-> 10, beyond |-> FALSE]
        minutes == parsed.value
    IN  IF ~parsed.ok THEN Returned(<<"Vui long nhap so phut hop le, vi du /mute 10.">>)
        ELSE IF minutes < 0 THEN Returned(<<"So phut phai lon hon 0.">>)
        ELSE [Returned(<<"Da im lang trong ", ToString(minutes), " phut.">>)
              EXCEPT !.chat_mute_until = set_chat_mute(chat_id, minutes),
                     !.muted_for = minutes]

\* /mute, lines 298-308.  With a positive count beyond the float range,
\* time.time() + (minutes * 60) of line 271 raises OverflowError.
mute_command(parts, chat_id) ==
    LET parsed == IF Len(parts) > 1 THEN ParseInt(parts[2])
                  ELSE [ok |-> TRUE, value |-> 10, beyond |-> FALSE]
        minutes == parsed.value
    IN  IF ~parsed.ok THEN Returned(<<"Vui long nhap so phut hop le, vi du /mute 10.">>)
        ELSE IF minutes <= 0 THEN Returned(<<"So phut phai lon hon 0.">>)
        ELSE IF parsed.beyond THEN Raised
        ELSE [Returned(<<"Da im lang trong ", ToString(minutes), " phut.">>)
              EXCEPT !.chat_mute_until = set_chat_mute(chat_id, minutes),
                     !.muted_for = minutes]

\* mood_command without the .lower() of line 314.
mood_command_case_sensitive(parts, chat_id) ==
    IF Len(parts) = 1
    THEN Returned(<<"Mood hien tai: ">> \o get_chat_mood(chat_id)
                  \o <<". Mood kha dung: ">> \o MOOD_OPTIONS_TEXT \o <<".">>)
    ELSE LET mood_raw == Strip(Join(<<" ">>, Tail(parts)))
             mood_key == Replace(mood_raw, " ", "_")
         IN  IF ~InMoodTones(mood_key)
             THEN Returned(<<"Mood khong hop le. Chon mot trong: ">>
                           \o MOOD_OPTIONS_TEXT \o <<".">>)
             ELSE [Returned(<<"Da chuyen mood sang ">> \o mood_key
                            \o <<". ", MOOD_TONES(mood_key)>>)
                   EXCEPT !.chat_mood = set_chat_mood(chat_id, mood_key),
                          !.mood_set = mood_key]

mood_command(parts, chat_id) ==
    IF Len(parts) = 1
    THEN Returned(<<"Mood hien tai: ">> \o get_chat_mood(chat_id)
                  \o <<". Mood kha dung: ">> \o MOOD_OPTIONS_TEXT \o <<".">>)
    ELSE LET mood_raw == Lower(Strip(Join(<<" ">>, Tail(parts))))
             mood_key == Replace(mood_raw, " ", "_")
         IN  IF ~InMoodTones(mood_key)
             THEN Returned(<<"Mood khong hop le. Chon mot trong: ">>
                           \o MOOD_OPTIONS_TEXT \o <<".">>)
             ELSE [Returned(<<"Da chuyen mood sang ">> \o mood_key
                            \o <<". ", MOOD_TONES(mood_key)>>)
                   EXCEPT !.chat_mood = set_chat_mood(chat_id, mood_key),
                          !.mood_set = mood_key]

autoreply_command(parts, chat_id) ==
    IF Len(parts) = 1
    THEN Returned(<<"Auto-reply hien tai: ">> \o get_auto_reply_mode(chat_id)
                  \o <<" (all/mention).">>)
    ELSE LET mode == Lower(parts[2])
         IN  IF mode \notin {AUTO_REPLY_ALL, AUTO_REPLY_MENTION}
             THEN Returned(<<"Chi chap nhan 'all' hoac 'mention'. Vi du: /autoreply mention">>)
             ELSE [Returned(IF mode = AUTO_REPLY_ALL
                            THEN <<"Bot se tra loi tat ca tin nhan van ban.">>
                            ELSE <<"Bot se chi tra loi khi duoc nhac ten hoac lenh.">>)
                   EXCEPT !.chat_auto_reply_mode = set_auto_reply_mode(chat_id, mode)]

\* parts[0].lower(), cut at the first "@"
CommandOf(parts) ==
    LET command == Lower(parts[1])
    IN  IF Contains(command, <<"@">>) THEN BeforeFirst(command, "@") ELSE command

handle_command(message_text, chat_id) ==
    LET text == Strip(message_text)
        parts == Split(text)
    IN  IF ~StartsWith(text, <<"/">>) THEN Returned(<<>>)
        ELSE IF ~Truthy(parts) THEN Returned(<<>>)
        ELSE LET command == CommandOf(parts)
             IN  IF command = CMD_ALIVE THEN alive_command
                 ELSE IF command \in {CMD_HELP, CMD_START} THEN Returned(Strip(HELP_TEXT))
                 ELSE IF command = CMD_MUTE THEN mute_command(parts, chat_id)
                 ELSE IF command = CMD_MOOD THEN mood_command(parts, chat_id)
                 ELSE IF command = CMD_AUTOREPLY THEN autoreply_command(parts, chat_id)
                 ELSE Returned(<<>>)

(***************************************************************************)
(* get_groq_response                                                       *)
(***************************************************************************)
\* What requests.post(GROQ_API_URL, ...) can do: raise requests.Timeout, raise
\* another requests.RequestException (connection error, HTTP error status),
\* return a body the parsing of which raises (any other Exception), or return
\* a body with choices[0].message.content.
GROQ_OUTCOMES == {"timeout", "request_error", "unexpected", "ok"}

\* messages = [system] + history + [user]
groq_messages(message_text, system_prompt, history) ==
    <<[role |-> "system", content |-> system_prompt]>> \o history
    \o <<[role |-> "user", content |-> message_text]>>

\* get_groq_response without the .strip() of line 141.
get_groq_response_unstripped(message_text, system_prompt, history, response) ==
    IF response.kind = "ok"
    THEN LET reply == response.content
         IN  IF Truthy(reply) THEN reply ELSE <<>>
    ELSE <<>>

\* The reply, or <<>> for None; response is what the one POST did.
get_groq_response(message_text, system_prompt, history, response) ==
    IF response.kind = "ok"
    THEN LET reply == Strip(response.content)
         IN  IF Truthy(reply) THEN reply ELSE <<>>
    ELSE <<>>

\* random.choice(FALLBACK_MESSAGES), the choice being pick
get_fallback_message(pick) == FALLBACK_MESSAGES[pick]

(***************************************************************************)
(* send_telegram_message and process_message                               *)
(***************************************************************************)
\* The call send_telegram_message(chat_id, final_message, message_id), where
\* final_message addresses user_id and carries reply_text; delivered is what
\* the call returns (FALSE when the POST raised).
send_telegram_message(chat_id, user_id, reply_text, message_id, delivered) ==
    [chat_id |-> chat_id, user_id |-> user_id, reply |-> reply_text,
     reply_to_message_id |-> message_id, delivered |-> delivered]

\* The decisions that send nothing.
\* "Raised" is the chain left by an exception, which comes before any send.
NO_ACTION == {"NonText", "BotSender", "Ignored", "MissingField", "Muted", "Raised"}

\* The decisions that send a reply.
REPLYING == {"MentionPing", "ReplyPing", "CommandResult", "LocalIntent",
             "RemoteReply", "Fallback"}

\* process_message returning with no send and the store as it is.
Ignore(why) ==
    [decision |-> why, chat_mute_until |-> chat_mute_until, chat_mood |-> chat_mood,
     chat_auto_reply_mode |-> chat_auto_reply_mode, chat_history |-> chat_history,
     outbox |-> <<>>, groq_requests |-> <<>>, mute_check |-> "not_called",
     muted_for |-> 0, mood_set |-> <<>>, recorded |-> <<>>, raised |-> FALSE]

\* The body of process_message left by an exception, nothing sent or stored.
Raise == [Ignore("Raised") EXCEPT !.raised = TRUE]

\* Reply with the turn recorded only when the send succeeded.
Reply_if_delivered(why, u, env, cmd, mute, user_text, reply_text, requests, checked) ==
    [decision |-> why, chat_mute_until |-> mute, chat_mood |-> cmd.chat_mood,
     chat_auto_reply_mode |-> cmd.chat_auto_reply_mode,
     chat_history |-> IF env.send_ok
                      THEN record_conversation_turn(chat_history, u.chat_id,
                                                    user_text, reply_text)
                      ELSE chat_history,
     outbox |-> <<send_telegram_message(u.chat_id, u.user_id, reply_text,
                                        u.message_id, env.send_ok)>>,
     groq_requests |-> requests, mute_check |-> checked,
     muted_for |-> cmd.muted_for, mood_set |-> cmd.mood_set,
     recorded |-> <<user_text, reply_text>>, raised |-> FALSE]

\* process_message returning after one send of reply_text and the recording of
\* the turn (user_text, reply_text); cmd is what handle_command left of the
\* store when it ran, mute what is_chat_muted left of chat_mute_until.
Reply(why, u, env, cmd, mute, user_text, reply_text, requests, checked) ==
    [decision |-> why, chat_mute_until |-> mute, chat_mood |-> cmd.chat_mood,
     chat_auto_reply_mode |-> cmd.chat_auto_reply_mode,
     chat_history |-> record_conversation_turn(chat_history, u.chat_id,
                                               user_text, reply_text),
     outbox |-> <<send_telegram_message(u.chat_id, u.user_id, reply_text,
                                        u.message_id, env.send_ok)>>,
     groq_requests |-> requests, mute_check |-> checked,
     muted_for |-> cmd.muted_for, mood_set |-> cmd.mood_set,
     recorded |-> <<user_text, reply_text>>, raised |-> FALSE]

\* remote_step with the request made a second time when the first gave no
\* reply.
remote_step_retrying(u, env, message_text, mute) ==
    LET system_prompt == build_system_prompt(chat_mood, u.chat_id)
        history_messages == get_chat_history_messages(chat_history, u.chat_id)
        ai_response == get_groq_response(message_text, system_prompt,
                                         history_messages, env.groq)
        request == groq_messages(message_text, system_prompt, history_messages)
    IN  IF Truthy(ai_response)
        THEN Reply("RemoteReply", u, env, Returned(<<>>), mute, message_text,
                   ai_response, <<request>>, "not_muted")
        ELSE Reply("Fallback", u, env, Returned(<<>>), mute, message_text,
                   get_fallback_message(env.pick), <<request, request>>, "not_muted")

\* Lines 473-486: the remote call and the fallback.
remote_step(u, env, message_text, mute) ==
    LET system_prompt == build_system_prompt(chat_mood, u.chat_id)
        history_messages == get_chat_history_messages(chat_history, u.chat_id)
        ai_response == get_groq_response(message_text, system_prompt,
                                         history_messages, env.groq)
        requests == <<groq_messages(message_text, system_prompt, history_messages)>>
    IN  IF Truthy(ai_response)
        THEN Reply("RemoteReply", u, env, Returned(<<>>), mute, message_text,
                   ai_response, requests, "not_muted")
        ELSE Reply("Fallback", u, env, Returned(<<>>), mute, message_text,
                   get_fallback_message(env.pick), requests, "not_muted")

\* command_step without the return of line 456: the chain goes on after the
\* command's reply was sent and recorded.
command_step_without_return(u, env, message_text) ==
    LET cmd == handle_command(message_text, u.chat_id)
        sent == Reply("CommandResult", u, env, cmd, cmd.chat_mute_until, message_text,
                      cmd.reply, <<>>, "not_called")
        muted == is_chat_muted(u.chat_id)
        rest == IF muted.result
                THEN [Ignore("Muted") EXCEPT !.mute_check = "muted",
                                             !.chat_mute_until = muted.chat_mute_until]
                ELSE remote_step(u, env, message_text, muted.chat_mute_until)
    IN  IF Truthy(cmd.reply)
        THEN [sent EXCEPT !.outbox = sent.outbox \o rest.outbox,
                          !.groq_requests = rest.groq_requests]
        ELSE rest

\* Lines 448-486: commands, mute, local intent, remote call.
command_step(u, env, message_text) ==
    LET cmd == handle_command(message_text, u.chat_id)
        muted == is_chat_muted(u.chat_id)
        local_reply == get_local_intent_reply(message_text)
    IN  IF cmd.raised THEN Raise
        ELSE IF Truthy(cmd.reply)
        THEN Reply("CommandResult", u, env, cmd, cmd.chat_mute_until, message_text,
                   cmd.reply, <<>>, "not_called")
        ELSE IF muted.result
        THEN [Ignore("Muted") EXCEPT !.mute_check = "muted",
                                     !.chat_mute_until = muted.chat_mute_until]
        ELSE IF Truthy(local_reply)
        THEN Reply("LocalIntent", u, env, Returned(<<>>), muted.chat_mute_until,
                   message_text, local_reply, <<>>, "not_muted")
        ELSE remote_step(u, env, message_text, muted.chat_mute_until)

\* Lines 427-446: the reply-to-bot test, the required fields, the quick reply.
validate_step(u, env, original_text, message_text) ==
    LET is_reply_to_bot == BOT_USER_ID # 0 /\ u.reply_to_user_id = BOT_USER_ID
    IN  IF u.chat_id = 0 \/ u.message_id = 0 \/ u.user_id = 0 \/ ~Truthy(message_text)
        THEN Ignore("MissingField")
        ELSE IF is_reply_to_bot /\ ~Truthy(Strip(original_text))
        THEN Reply("ReplyPing", u, env, Returned(<<>>), chat_mute_until,
                   Strip(original_text), MENTION_PING_REPLY, <<>>, "not_called")
        ELSE command_step(u, env, message_text)

\* mention_step with the bare ping answered only when the chat is not muted.
mention_step_ping_respects_mute(u, env) ==
    LET original_text == u.text
        message_text == Strip(original_text)
        extracted == extract_text_without_mention(original_text)
        cleaned_text == extracted.cleaned
        auto_reply_mode == get_auto_reply_mode(u.chat_id)
    IN  IF extracted.has_mention
        THEN IF ~Truthy(cleaned_text)
             THEN IF is_chat_muted(u.chat_id).result
                  THEN [Ignore("Muted") EXCEPT !.mute_check = "muted"]
                  ELSE Reply("MentionPing", u, env, Returned(<<>>), chat_mute_until,
                             Strip(original_text), MENTION_PING_REPLY, <<>>, "not_called")
             ELSE validate_step(u, env, original_text, cleaned_text)
        ELSE IF auto_reply_mode = AUTO_REPLY_MENTION /\ ~StartsWith(message_text, <<"/">>)
        THEN Ignore("Ignored")
        ELSE validate_step(u, env, original_text, message_text)

\* mention_step without the startswith('/') test of line 424: in mention-only
\* mode every message without a mention is dropped.
mention_step_drops_commands(u, env) ==
    LET original_text == u.text
        message_text == Strip(original_text)
        extracted == extract_text_without_mention(original_text)
        cleaned_text == extracted.cleaned
        auto_reply_mode == get_auto_reply_mode(u.chat_id)
    IN  IF extracted.has_mention
        THEN IF ~Truthy(cleaned_text)
             THEN Reply("MentionPing", u, env, Returned(<<>>), chat_mute_until,
                        Strip(original_text), MENTION_PING_REPLY, <<>>, "not_called")
             ELSE validate_step(u, env, original_text, cleaned_text)
        ELSE IF auto_reply_mode = AUTO_REPLY_MENTION
        THEN Ignore("Ignored")
        ELSE validate_step(u, env, original_text, message_text)

\* Lines 401-426: the mention, the bare ping and the mention-only filter.
mention_step(u, env) ==
    LET original_text == u.text
        message_text == Strip(original_text)
        extracted == extract_text_without_mention(original_text)
        cleaned_text == extracted.cleaned
        auto_reply_mode == get_auto_reply_mode(u.chat_id)
    IN  IF extracted.has_mention
        THEN IF ~Truthy(cleaned_text)
             THEN LET user_entry ==
                          IF Truthy(Strip(original_text)) THEN Strip(original_text)
                          ELSE IF Truthy(BOT_USERNAME) THEN <<"@">> \o BOT_USERNAME
                          ELSE Strip(original_text)
                  IN  Reply("MentionPing", u, env, Returned(<<>>), chat_mute_until,
                            user_entry, MENTION_PING_REPLY, <<>>, "not_called")
             ELSE validate_step(u, env, original_text, cleaned_text)
        ELSE IF auto_reply_mode = AUTO_REPLY_MENTION /\ ~StartsWith(message_text, <<"/">>)
        THEN Ignore("Ignored")
        ELSE validate_step(u, env, original_text, message_text)

\* process_message without the is_bot test of lines 396-399.
process_message_answers_bots(u, env) ==
    IF ~u.has_message \/ ~u.has_text THEN Ignore("NonText")
    ELSE mention_step(u, env)

\* Lines 387-486, the body of the try of process_message: the decision, the
\* store after it, and the calls made.  env holds what the outside did: the
\* Groq response, the fallback picked and whether the send succeeded.
process_message_body(u, env) ==
    IF ~u.has_message \/ ~u.has_text THEN Ignore("NonText")
    ELSE IF u.is_bot THEN Ignore("BotSender")
    ELSE mention_step(u, env)

\* An except clause that logs the exception and goes on (lines 488-489 and
\* 501-502): whatever the body raised goes no further.
Except(done) == [done EXCEPT !.raised = FALSE]

\* process_message(update): the body, in the try of lines 386-489.
process_message(u, env) == Except(process_message_body(u, env))

\* handle_update with no except clause here nor in process_message: what the
\* chain raises goes to the caller.
handle_update_unguarded(u, env) == process_message_body(u, env)

\* handle_update(update), lines 492-502: process_message, and an except of
\* its own.  raised tells whether an exception leaves the call.
handle_update(u, env) == Except(process_message(u, env))

(***************************************************************************)
(* The updates and the outside world's answers fed to the bot.             *)
(***************************************************************************)
TXT_HI == <<"h", "i">>

TXT_YO == <<"y", "o">>

TXT_PING == <<"@", "b", "o", "t">>

TXT_PING_SPACED == <<" ", "@", "B", "o", "t", " ">>

TXT_MENTION_HI == <<"@", "B", "O", "T", " ", "h", "i">>

TXT_ALIVE == <<"/", "a", "l", "i", "v", "e">>

TXT_ALIVE_AT == <<"/", "A", "l", "i", "v", "e", "@", "b", "o", "t">>

TXT_HELP == <<"/", "h", "e", "l", "p">>

TXT_MUTE == <<"/", "m", "u", "t", "e">>

TXT_MUTE_1 == <<"/", "m", "u", "t", "e", " ", "1">>

TXT_MUTE_2 == <<"/", "m", "u", "t", "e", " ", "2">>

TXT_MUTE_0 == <<"/", "m", "u", "t", "e", " ", "0">>

TXT_MUTE_NEG == <<"/", "m", "u", "t", "e", " ", "-", "1">>

TXT_MUTE_BAD == <<"/", "m", "u", "t", "e", " ", "x">>

\* "/mute 1000...0", the number having FloatDigits + 1 digits.
TXT_MUTE_HUGE ==
    <<"/", "m", "u", "t", "e", " ", "1">> \o [i \in 1..FloatDigits |-> "0"]

TXT_MOOD == <<"/", "m", "o", "o", "d">>

TXT_MOOD_VUI == <<"/", "m", "o", "o", "d", " ", "v", "u", "i">>

TXT_MOOD_LEM_LINH == <<"/", "m", "o", "o", "d", " ", "L", "E", "M", " ", " ", "l", "i", "n", "h">>

TXT_MOOD_CAU_GAT == <<"/", "M", "O", "O", "D", " ", "c", "a", "u", "_", "g", "a", "t">>

TXT_MOOD_BAD == <<"/", "m", "o", "o", "d", " ", "x", "a", "u">>

TXT_MOOD_BAD_JOIN == <<"/", "m", "o", "o", "d", " ", "v", "u", "i", " ", "v", "u", "i">>

TXT_AUTOREPLY == <<"/", "a", "u", "t", "o", "r", "e", "p", "l", "y">>

TXT_AUTOREPLY_MENTION == <<"/", "a", "u", "t", "o", "r", "e", "p", "l", "y", " ", "M", "e", "n", "t", "i", "o", "n">>

TXT_AUTOREPLY_ALL == <<"/", "a", "u", "t", "o", "r", "e", "p", "l", "y", " ", "a", "l", "l">>

TXT_AUTOREPLY_BAD == <<"/", "a", "u", "t", "o", "r", "e", "p", "l", "y", " ", "x">>

TXT_UNKNOWN == <<"/", "n", "o", "p", "e">>

TXT_TIME == <<"M", "a", "y", " ", "g", "i", "o", " ", "r", "o", "i">>

TXT_DAY == <<"n", "a", "y", " ", "l", "a", " ", "t", "h", "u", " ", "m", "a", "y">>

TXT_BLANK == <<" ">>

TXT_EMPTY == <<>>

TXT_OK == <<"o", "k">>

\* The user name the bot is configured with, when it is.
USERNAME_BOT == <<"b", "o", "t">>

\* A text message of a human user, with every field present.
Msg(chat_id, text) ==
    [has_message |-> TRUE, has_text |-> TRUE, is_bot |-> FALSE, chat_id |-> chat_id,
     message_id |-> 5, user_id |-> 7, text |-> text, reply_to_user_id |-> 0]

\* The update before any is handled.
NoUpdate ==
    [has_message |-> FALSE, has_text |-> FALSE, is_bot |-> FALSE, chat_id |-> 0,
     message_id |-> 0, user_id |-> 0, text |-> <<>>, reply_to_user_id |-> 0]

NoResponse == [kind |-> "none", content |-> <<>>]

\* The Groq responses: three kinds of failure, and bodies with a reply, with
\* blanks only and with an empty content.
GroqResponses ==
    {[kind |-> k, content |-> <<>>] : k \in {"timeout", "request_error", "unexpected"}}
    \cup {[kind |-> "ok", content |-> c] : c \in {TXT_OK, TXT_BLANK, TXT_EMPTY}}

(***************************************************************************)
(* Actions.                                                                *)
(***************************************************************************)
\* No call of handle_update is in progress.
Idle == decision = "None"

\* The state after handle_update(u) ran process_message(u) to its end.
Apply(u, env, res) ==
    /\ chat_mute_until' = res.chat_mute_until
    /\ chat_mood' = res.chat_mood
    /\ chat_auto_reply_mode' = res.chat_auto_reply_mode
    /\ chat_history' = res.chat_history
    /\ update' = u
    /\ decision' = IF res.raised THEN "Escaped" ELSE res.decision
    /\ outbox' = res.outbox
    /\ groq_requests' = res.groq_requests
    /\ groq_response' = IF res.groq_requests = <<>> THEN NoResponse ELSE env.groq
    /\ mute_check' = res.mute_check
    /\ mute_cmd' = IF res.muted_for > 0
                   THEN DictSet(mute_cmd, u.chat_id,
                                [at |-> now, minutes |-> res.muted_for,
                                 before |-> DictGet(chat_mute_until, u.chat_id, 0)])
                   ELSE mute_cmd
    /\ mood_cmd' = IF res.mood_set # <<>>
                   THEN DictSet(mood_cmd, u.chat_id,
                                [mood |-> res.mood_set, reply |-> res.outbox[1].reply,
                                 again |-> /\ u.chat_id \in DOMAIN mood_cmd
                                           /\ mood_cmd[u.chat_id].mood = res.mood_set])
                   ELSE mood_cmd
    /\ UNCHANGED <<now, config>>

\* handle_update(u) for an update of Updates: the Groq call (if one is made)
\* is answered by one of Responses, the fallback (if one is needed) is the
\* message at one of Picks, the send (if one is made) returns one of Sends.
Handling(Updates, Responses, Picks, Sends) ==
    \E u \in Updates :
       LET quiet == [groq |-> NoResponse, pick |-> 1, send_ok |-> TRUE]
           probe == handle_update(u, quiet)
       IN  IF probe.outbox = <<>> THEN Apply(u, quiet, probe)
           ELSE \E send_ok \in Sends :
                IF probe.groq_requests = <<>>
                THEN LET env == [quiet EXCEPT !.send_ok = send_ok]
                     IN  Apply(u, env, handle_update(u, env))
                ELSE \E g \in Responses :
                     \E pick \in (IF g.kind = "ok" /\ Truthy(Strip(g.content))
                                  THEN {1} ELSE Picks) :
                        LET env == [groq |-> g, pick |-> pick, send_ok |-> send_ok]
                        IN  Apply(u, env, handle_update(u, env))

\* handle_update called with an update, whichever front end calls it.
HandleUpdate(Updates, Responses, Picks, Sends) ==
    /\ Idle
    /\ Handling(Updates, Responses, Picks, Sends)
    /\ UNCHANGED delivery

\* handle_update returns to the polling loop or the webhook view: the record
\* of the call is dropped, the store stays.
Return ==
    /\ ~Idle
    /\ update' = NoUpdate
    /\ decision' = "None"
    /\ outbox' = <<>>
    /\ groq_requests' = <<>>
    /\ groq_response' = NoResponse
    /\ mute_check' = "not_called"
    /\ UNCHANGED <<now, config, store, mute_cmd, mood_cmd, delivery>>

\* The wall clock advances between two updates.
Tick ==
    /\ Idle
    /\ now < BOT_START_TIME + MaxTicks * TickSeconds
    /\ now' = now + TickSeconds
    /\ UNCHANGED <<config, store, call, delivery>>

\* A request thread of the webhook server that handles no request.
IdleThread == [pc |-> "idle", chat_id |-> 0, user_text |-> <<>>, bot_text |-> <<>>]

\* The request threads of the webhook server.
THREADS == {1, 2}

\* telegram_bot.py as imported, no front end started, no update handled yet.
Imported ==
    /\ now = BOT_START_TIME
    /\ chat_mute_until = <<>>
    /\ chat_mood = <<>>
    /\ chat_auto_reply_mode = <<>>
    /\ chat_history = <<>>
    /\ update = NoUpdate
    /\ decision = "None"
    /\ outbox = <<>>
    /\ groq_requests = <<>>
    /\ groq_response = NoResponse
    /\ mute_check = "not_called"
    /\ mute_cmd = <<>>
    /\ mood_cmd = <<>>
    /\ serving = "none"
    /\ offset = 0
    /\ batch = <<>>
    /\ fetch = "none"
    /\ http_status = 0
    /\ threads = [t \in THREADS |-> IdleThread]

\* The module as loaded, the configuration validated, no update handled yet.
\* Configs gives the values of BOT_USERNAME, BOT_USER_ID and
\* CHAT_HISTORY_LENGTH that the environment may set.
Loaded(Configs) ==
    /\ \E c \in Configs :
         /\ BOT_USERNAME = c.username
         /\ BOT_USER_ID = c.user_id
         /\ CHAT_HISTORY_LENGTH = c.history_length
    /\ GROQ_API_KEY = TRUE
    /\ TELEGRAM_TOKEN = TRUE
    /\ Imported

\* BOT_USERNAME and the id of TELEGRAM_TOKEN both set, or neither.
Named(history_length) ==
    [username |-> USERNAME_BOT, user_id |-> 99, history_length |-> history_length]

Unnamed(history_length) ==
    [username |-> <<>>, user_id |-> 0, history_length |-> history_length]

AllPicks == 1..Len(FALLBACK_MESSAGES)

EndPicks == {1, Len(FALLBACK_MESSAGES)}

(***************************************************************************)
(* Spec: the decision chain in one chat, with and without a bot user name. *)
(***************************************************************************)
ChainTexts ==
    {TXT_HI, TXT_PING_SPACED, TXT_MENTION_HI, TXT_ALIVE, TXT_MUTE_1,
     TXT_AUTOREPLY_MENTION, TXT_UNKNOWN, TXT_TIME, TXT_DAY, TXT_BLANK}

ChainUpdates ==
    {Msg(1, t) : t \in ChainTexts}
    \cup {[Msg(1, t) EXCEPT !.is_bot = TRUE] : t \in ChainTexts}
    \cup {[Msg(1, t) EXCEPT !.reply_to_user_id = 99] : t \in {TXT_HI, TXT_BLANK}}
    \cup {[Msg(1, TXT_HI) EXCEPT !.user_id = 0],
          [Msg(1, TXT_EMPTY) EXCEPT !.has_text = FALSE],
          NoUpdate}

Init == Loaded({Named(1), Unnamed(1)})

Next ==
    \/ HandleUpdate(ChainUpdates, GroqResponses, EndPicks, BOOLEAN)
    \/ Return
    \/ Tick

Spec == Init /\ [][Next]_vars

(***************************************************************************)
(* SpecHistory: turns recorded in two chats, for every history length up   *)
(* to MaxHistory.                                                          *)
(***************************************************************************)
HistoryUpdates ==
    {Msg(c, t) : c \in {1, 2}, t \in {TXT_HI, TXT_YO, TXT_ALIVE, TXT_MUTE_1, TXT_MENTION_HI,
                                        TXT_PING}}
    \cup {[Msg(1, TXT_HI) EXCEPT !.is_bot = TRUE]}

HistoryResponses ==
    {[kind |-> "ok", content |-> TXT_OK], [kind |-> "timeout", content |-> <<>>]}

InitHistory == Loaded({Named(h) : h \in 0..MaxHistory})

NextHistory ==
    \/ HandleUpdate(HistoryUpdates, HistoryResponses, {1}, {TRUE})
    \/ Return

SpecHistory == InitHistory /\ [][NextHistory]_vars

(***************************************************************************)
(* SpecMute: the /mute command and the mute window in one chat, the clock  *)
(* running.                                                                *)
(***************************************************************************)
MuteUpdates ==
    {Msg(1, t) : t \in {TXT_HI, TXT_MUTE, TXT_MUTE_1, TXT_MUTE_2, TXT_MUTE_0,
                        TXT_MUTE_NEG, TXT_MUTE_BAD, TXT_AUTOREPLY_MENTION}}

InitMute == Loaded({Unnamed(1)})

NextMute ==
    \/ HandleUpdate(MuteUpdates, HistoryResponses, {1}, {TRUE})
    \/ Return
    \/ Tick

SpecMute == InitMute /\ [][NextMute]_vars

(***************************************************************************)
(* SpecMood: the /mood command in two chats.                               *)
(***************************************************************************)
MoodUpdates ==
    {Msg(c, t) : c \in {1, 2},
                 t \in {TXT_MOOD, TXT_MOOD_VUI, TXT_MOOD_LEM_LINH, TXT_MOOD_CAU_GAT,
                        TXT_MOOD_BAD, TXT_MOOD_BAD_JOIN, TXT_HI}}

InitMood == Loaded({Unnamed(1)})

NextMood ==
    \/ HandleUpdate(MoodUpdates, HistoryResponses, {1}, {TRUE})
    \/ Return

SpecMood == InitMood /\ [][NextMood]_vars

(***************************************************************************)
(* SpecRemote: the Groq call answered in every way, every fallback         *)
(* message, the send failing or not.                                       *)
(***************************************************************************)
RemoteUpdates == {Msg(1, t) : t \in {TXT_HI, TXT_YO, TXT_ALIVE, TXT_TIME}}

InitRemote == Loaded({Unnamed(0), Unnamed(MaxHistory)})

NextRemote ==
    \/ HandleUpdate(RemoteUpdates, GroqResponses, AllPicks, BOOLEAN)
    \/ Return

SpecRemote == InitRemote /\ [][NextRemote]_vars

(***************************************************************************)
(* SpecSend: every replying decision, the send failing or not.             *)
(***************************************************************************)
SendUpdates ==
    {Msg(1, t) : t \in {TXT_HI, TXT_TIME, TXT_ALIVE, TXT_MUTE_1, TXT_MOOD_LEM_LINH,
                        TXT_AUTOREPLY_MENTION, TXT_AUTOREPLY_ALL}}

InitSend == Loaded({Unnamed(1)})

NextSend ==
    \/ HandleUpdate(SendUpdates, HistoryResponses, EndPicks, BOOLEAN)
    \/ Return
    \/ Tick

SpecSend == InitSend /\ [][NextSend]_vars

(***************************************************************************)
(* The front ends: polling_bot.py and webhook_server.py.                   *)
(***************************************************************************)
\* validate_config with the test of TELEGRAM_TOKEN only.
validate_config_token_only == TELEGRAM_TOKEN

\* validate_config(), lines 505-513 of telegram_bot.py
validate_config == TELEGRAM_TOKEN /\ GROQ_API_KEY

\* run_polling() up to its loop, polling_bot.py lines 66-74: the loop is
\* entered only with a valid configuration.
RunPolling ==
    /\ serving = "none"
    /\ serving' = IF validate_config THEN "polling" ELSE "exited"
    /\ UNCHANGED <<now, config, store, call, offset, batch, fetch, http_status,
                   threads>>

\* webhook_server.py run as a script, lines 70-83: exit(1) or app.run.
RunWebhook ==
    /\ serving = "none"
    /\ serving' = IF validate_config THEN "webhook" ELSE "exited"
    /\ UNCHANGED <<now, config, store, call, offset, batch, fetch, http_status,
                   threads>>

\* The updates us as getUpdates returns them, numbered from first on.
Numbered(us, first) ==
    [i \in 1..Len(us) |-> [update_id |-> first + i - 1, update |-> us[i]]]

\* The sequences of at most n elements of S.
RECURSIVE SeqsUpTo(_, _)
SeqsUpTo(S, n) ==
    IF n = 0 THEN {<<>>}
    ELSE LET shorter == SeqsUpTo(S, n - 1)
         IN  shorter \cup {Append(q, x) : q \in {r \in shorter : Len(r) = n - 1}, x \in S}

\* What the POST of getUpdates can do when called with offset off: raise (no
\* connection, timeout, HTTP error status, a body that is not JSON), answer
\* with ok false, or answer with up to MaxBatch updates, which Telegram
\* numbers from off on (from 1 on when no offset is sent).
FetchOutcomes(off, Updates) ==
    {[kind |-> k, result |-> <<>>] : k \in {"error", "not_ok"}}
    \cup {[kind |-> "ok", result |-> Numbered(us, IF off = 0 THEN 1 ELSE off)] :
            us \in SeqsUpTo(Updates, MaxBatch)}

\* get_updates returning no offset (None) after a fetch that failed.
get_updates_forgetting(off, outcome) ==
    IF outcome.kind = "ok"
    THEN LET updates == outcome.result
         IN  [updates |-> updates,
              next_offset |-> IF updates # <<>>
                              THEN updates[Len(updates)].update_id + 1 ELSE off]
    ELSE [updates |-> <<>>, next_offset |-> 0]

\* get_updates(offset), polling_bot.py lines 25-63: the updates and the next
\* offset.
get_updates(off, outcome) ==
    IF outcome.kind = "ok"
    THEN LET updates == outcome.result
         IN  [updates |-> updates,
              next_offset |-> IF updates # <<>>
                              THEN updates[Len(updates)].update_id + 1 ELSE off]
    ELSE [updates |-> <<>>, next_offset |-> off]

\* One fetch of the loop of run_polling, line 79.  (The sleep of line 89 after
\* an empty fetch only lets time pass.)
GetUpdates(Updates) ==
    /\ serving = "polling"
    /\ Idle
    /\ batch = <<>>
    /\ \E outcome \in FetchOutcomes(offset, Updates) :
         LET got == get_updates(offset, outcome)
         IN  /\ got.next_offset <= MaxUpdateId + 1
             /\ batch' = got.updates
             /\ offset' = got.next_offset
             /\ fetch' = outcome.kind
    /\ UNCHANGED <<now, config, store, call, serving, http_status, threads>>

\* One turn of the for loop of run_polling, lines 81-85: handle_update on the
\* next update of the batch; were it to raise, line 84 would catch it, and
\* the loop goes on with the rest of the batch either way.
PollHandle(Responses, Picks, Sends) ==
    /\ serving = "polling"
    /\ Idle
    /\ batch # <<>>
    /\ Handling({Head(batch).update}, Responses, Picks, Sends)
    /\ batch' = Tail(batch)
    /\ fetch' = "none"
    /\ UNCHANGED <<serving, offset, http_status, threads>>

\* KeyboardInterrupt in the loop of run_polling, lines 91-93.
Interrupt ==
    /\ serving = "polling"
    /\ Idle
    /\ serving' = "interrupted"
    /\ batch' = <<>>
    /\ fetch' = "none"
    /\ UNCHANGED <<now, config, store, call, offset, http_status, threads>>

\* The status the view webhook() answers with, webhook_server.py lines 32-55:
\* body is "malformed" when request.get_json() raises, "empty" when it gives
\* None or an empty object, "update" otherwise; escaped tells whether
\* handle_update raised.
webhook(body, escaped) ==
    IF body = "malformed" THEN 500
    ELSE IF body = "empty" THEN 400
    ELSE IF escaped THEN 500
    ELSE 200

\* One POST to the webhook path, the server handling one request at a time.
Webhook(Updates, Responses, Picks, Sends) ==
    /\ serving = "webhook"
    /\ Idle
    /\ \/ /\ \E body \in {"malformed", "empty"} : http_status' = webhook(body, FALSE)
          /\ UNCHANGED <<now, config, store, call>>
       \/ /\ Handling(Updates, Responses, Picks, Sends)
          /\ http_status' = webhook("update", decision' = "Escaped")
    /\ UNCHANGED <<serving, offset, batch, fetch, threads>>

(***************************************************************************)
(* SpecServe: either front end started with or without the token and the   *)
(* API key, then fed updates.                                              *)
(***************************************************************************)
ServeUpdates == {Msg(1, TXT_HI), Msg(1, TXT_MUTE_HUGE), NoUpdate}

\* BOT_USER_ID is the number that TELEGRAM_TOKEN starts with (lines 32-38).
InitServe ==
    /\ TELEGRAM_TOKEN \in BOOLEAN
    /\ GROQ_API_KEY \in BOOLEAN
    /\ BOT_USERNAME = <<>>
    /\ BOT_USER_ID = IF TELEGRAM_TOKEN THEN 99 ELSE 0
    /\ CHAT_HISTORY_LENGTH = 1
    /\ Imported

NextServe ==
    \/ RunPolling
    \/ RunWebhook
    \/ GetUpdates(ServeUpdates)
    \/ PollHandle(HistoryResponses, {1}, {TRUE})
    \/ Interrupt
    \/ Webhook(ServeUpdates, HistoryResponses, {1}, {TRUE})
    \/ Return

SpecServe == InitServe /\ [][NextServe]_vars

(***************************************************************************)
(* The webhook server with threaded=True: each POST is handled in a thread *)
(* of its own, and the threads share the four dicts with no lock.  A       *)
(* thread runs the chain up to the send in one step (its writes of mute,   *)
(* mood and mode included), then record_conversation_turn statement by     *)
(* statement: the other threads run in between.                            *)
(***************************************************************************)
\* Where a thread that has sent its reply goes on: the first statement of
\* record_conversation_turn that applies (lines 203-208 and 194-195).
RecordFrom(user_text, bot_text) ==
    IF CHAT_HISTORY_LENGTH <= 0 THEN "return"
    ELSE IF Truthy(user_text) THEN "user_append"
    ELSE IF Truthy(bot_text) THEN "assistant_append"
    ELSE "return"

\* A POST with an update arrives and thread t handles it up to the send.
ThreadStart(t, Updates, Responses) ==
    /\ serving = "webhook"
    /\ threads[t].pc = "idle"
    /\ \E u \in Updates, g \in Responses :
         \E res \in {handle_update(u, [groq |-> g, pick |-> 1, send_ok |-> TRUE])} :
            /\ chat_mute_until' = res.chat_mute_until
            /\ chat_mood' = res.chat_mood
            /\ chat_auto_reply_mode' = res.chat_auto_reply_mode
            /\ threads' =
                 [threads EXCEPT ![t] =
                    IF res.recorded = <<>>
                    THEN [IdleThread EXCEPT !.pc = "return", !.chat_id = u.chat_id]
                    ELSE [pc |-> RecordFrom(res.recorded[1], res.recorded[2]),
                          chat_id |-> u.chat_id,
                          user_text |-> res.recorded[1], bot_text |-> res.recorded[2]]]
    /\ UNCHANGED <<now, config, chat_history, call, serving, offset, batch, fetch,
                   http_status>>

\* Thread t runs lines 196-197 for the entry it is at.
ThreadAppend(t) ==
    LET thread == threads[t]
    IN  /\ thread.pc \in {"user_append", "assistant_append"}
        /\ chat_history' =
             IF thread.pc = "user_append"
             THEN history_append(chat_history, thread.chat_id, "user", thread.user_text)
             ELSE history_append(chat_history, thread.chat_id, "assistant", thread.bot_text)
        /\ threads' = [threads EXCEPT ![t].pc =
                         IF thread.pc = "user_append" THEN "user_trim" ELSE "assistant_trim"]
        /\ UNCHANGED <<now, config, chat_mute_until, chat_mood, chat_auto_reply_mode,
                       call, serving, offset, batch, fetch, http_status>>

\* Thread t runs lines 198-199 for the entry it appended.
ThreadTrim(t) ==
    LET thread == threads[t]
    IN  /\ thread.pc \in {"user_trim", "assistant_trim"}
        /\ chat_history' = history_trim(chat_history, thread.chat_id)
        /\ threads' = [threads EXCEPT ![t].pc =
                         IF thread.pc = "user_trim" /\ Truthy(thread.bot_text)
                         THEN "assistant_append" ELSE "return"]
        /\ UNCHANGED <<now, config, chat_mute_until, chat_mood, chat_auto_reply_mode,
                       call, serving, offset, batch, fetch, http_status>>

\* Thread t answers its POST (webhook_server.py line 51) and ends.
ThreadReturn(t) ==
    /\ threads[t].pc = "return"
    /\ threads' = [threads EXCEPT ![t] = IdleThread]
    /\ http_status' = webhook("update", FALSE)
    /\ UNCHANGED <<now, config, store, call, serving, offset, batch, fetch>>

(***************************************************************************)
(* SpecThreads: commands of two chats handled by two threads.              *)
(***************************************************************************)
CHATS == {1, 2}

ThreadUpdates ==
    {Msg(c, t) : c \in CHATS,
                 t \in {TXT_MUTE_1, TXT_MOOD_VUI, TXT_AUTOREPLY_MENTION}}

InitThreads == Loaded({Unnamed(1)})

NextThreads ==
    \/ RunWebhook
    \/ \E t \in THREADS :
         \/ ThreadStart(t, ThreadUpdates, HistoryResponses)
         \/ ThreadAppend(t)
         \/ ThreadTrim(t)
         \/ ThreadReturn(t)

SpecThreads == InitThreads /\ [][NextThreads]_vars

(***************************************************************************)
(* SpecMuted: commands and plain messages sent to a chat that gets muted,  *)
(* the clock running.                                                      *)
(***************************************************************************)
MutedUpdates ==
    {Msg(1, t) : t \in {TXT_HI, TXT_TIME, TXT_UNKNOWN, TXT_ALIVE, TXT_HELP,
                        TXT_MUTE_1, TXT_MUTE_HUGE, TXT_MOOD, TXT_AUTOREPLY}}

InitMuted == Loaded({Unnamed(1)})

NextMuted ==
    \/ HandleUpdate(MutedUpdates, HistoryResponses, {1}, {TRUE})
    \/ Return
    \/ Tick

SpecMuted == InitMuted /\ [][NextMuted]_vars

(***************************************************************************)
(* Properties.                                                             *)
(***************************************************************************)
\* A step in which handle_update handles update'.
Handles == Idle /\ ~Idle'

\* The update is a text message of a sender that is not a bot.
HumanText(u) == u.has_message /\ u.has_text /\ ~u.is_bot

\* chat id, message id and sender id are all present.
Complete(u) == u.chat_id # 0 /\ u.message_id # 0 /\ u.user_id # 0

\* The text holds no mention of the bot.
NoMention(text) ==
    ~Truthy(BOT_USERNAME) \/ ~Contains(Lower(text), Lower(BOT_MENTION_PATTERN))

\* The text the chain works on once the mention step is passed.
EffectiveText(u) ==
    IF NoMention(u.text) THEN Strip(u.text)
    ELSE extract_text_without_mention(u.text).cleaned

\* The user text of the turn that a replying decision records: the stripped
\* text for a bare ping, the text the chain worked on otherwise.
RecordedText(u) ==
    IF Truthy(EffectiveText(u)) THEN EffectiveText(u) ELSE Strip(u.text)

\* The last n entries of s.
LastN(s, n) == IF Len(s) > n THEN SubSeq(s, Len(s) - n + 1, Len(s)) ELSE s

\* C1: an update whose sender is a bot ends in NoAction: nothing is sent, no
\* Groq request is made and no chat's mute, mood, mode or history changes,
\* whatever the text, the mention, the auto-reply mode and the mute state.
C1_BotSenderNoAction ==
    [][(Handles /\ update'.is_bot)
         => /\ decision' \in NO_ACTION
            /\ outbox' = <<>>
            /\ groq_requests' = <<>>
            /\ store' = store]_vars

\* A bot sent /alive to a muted chat in mention-only mode and was ignored.
C1_Witness ==
    /\ decision = "BotSender"
    /\ update.is_bot
    /\ update.text = TXT_ALIVE
    /\ get_auto_reply_mode(1) = AUTO_REPLY_MENTION
    /\ 1 \in DOMAIN chat_mute_until

\* C2: every handled update ends in exactly one decision; the decisions
\* MentionPing, CommandResult, LocalIntent, RemoteReply and Fallback make
\* exactly one send, the NoAction decisions (Muted included) make none.
C2_OneSendPerDecision ==
    ~Idle => \/ decision \in REPLYING /\ Len(outbox) = 1
             \/ decision \in NO_ACTION /\ outbox = <<>>

\* A command was answered with one send.
C2_Witness ==
    /\ decision = "CommandResult"
    /\ Len(outbox) = 1
    /\ update.text = TXT_MUTE_1

C4_MuteWindow ==
    (~Idle /\ mute_check # "not_called" /\ update.chat_id \in DOMAIN mute_cmd)
      => LET c == update.chat_id
             until == mute_cmd[c].at + mute_cmd[c].minutes * 60
         IN  /\ mute_cmd[c].minutes > 0
             /\ IF now < until
                THEN /\ mute_check = "muted"
                     /\ decision = "Muted"
                     /\ c \in DOMAIN chat_mute_until
                     /\ chat_mute_until[c] = until
                ELSE /\ mute_check = "not_muted"
                     /\ c \notin DOMAIN chat_mute_until

\* is_chat_muted was called exactly when the mute ran out, and cleared it.
C4_Witness ==
    /\ mute_check = "not_muted"
    /\ 1 \in DOMAIN mute_cmd
    /\ now = mute_cmd[1].at + mute_cmd[1].minutes * 60
    /\ 1 \notin DOMAIN chat_mute_until

\* C5: /mute m with an integer m <= 0 is answered with the validation error
\* and leaves chat_mute_until as it was.
C5_NonPositiveMute ==
    [][(Handles /\ HumanText(update') /\ Complete(update')
          /\ update'.text \in {TXT_MUTE_0, TXT_MUTE_NEG})
         => /\ decision' = "CommandResult"
            /\ Len(outbox') = 1
            /\ outbox'[1].reply = <<"So phut phai lon hon 0.">>
            /\ chat_mute_until' = chat_mute_until]_vars

\* /mute -1 was refused in a chat that is muted, and the chat is still muted.
C5_Witness ==
    /\ decision = "CommandResult"
    /\ update.text = TXT_MUTE_NEG
    /\ 1 \in DOMAIN chat_mute_until
    /\ now < chat_mute_until[1]

\* The mood key each valid /mood command of the catalogue names.
MoodNamed(text) ==
    IF text = TXT_MOOD_VUI THEN MOOD_VUI
    ELSE IF text = TXT_MOOD_LEM_LINH THEN MOOD_LEM_LINH
    ELSE MOOD_CAU_GAT

\* C6: /mood with a key outside MOOD_TONES leaves chat_mood unchanged and
\* answers with the error that lists the moods; with a key of MOOD_TONES
\* (whatever its case, blanks for underscores) it stores the key for the chat
\* and leaves the other chats' moods alone; nothing else changes chat_mood;
\* and /mood alone reports the chat's stored mood (the default when none is).
C6_MoodSetAndQuery ==
    [][Handles =>
         LET u == update'
             c == update'.chat_id
         IN  /\ u.text \in {TXT_MOOD_BAD, TXT_MOOD_BAD_JOIN}
                  => /\ chat_mood' = chat_mood
                     /\ outbox'[1].reply = <<"Mood khong hop le. Chon mot trong: ">>
                                           \o MOOD_OPTIONS_TEXT \o <<".">>
             /\ u.text \in {TXT_MOOD_VUI, TXT_MOOD_LEM_LINH, TXT_MOOD_CAU_GAT}
                  => /\ DOMAIN chat_mood' = DOMAIN chat_mood \cup {c}
                     /\ chat_mood'[c] = MoodNamed(u.text)
                     /\ \A d \in DOMAIN chat_mood \ {c} : chat_mood'[d] = chat_mood[d]
             /\ u.text \notin {TXT_MOOD_VUI, TXT_MOOD_LEM_LINH, TXT_MOOD_CAU_GAT}
                  => chat_mood' = chat_mood
             /\ u.text = TXT_MOOD
                  => outbox'[1].reply =
                       <<"Mood hien tai: ">>
                       \o (IF c \in DOMAIN chat_mood THEN chat_mood[c] ELSE MOOD_VUI)
                       \o <<". Mood kha dung: ">> \o MOOD_OPTIONS_TEXT \o <<".">>]_vars

\* /mood reported lem_linh, the key that "/mood LEM  linh" had stored.
C6_Witness ==
    /\ update.text = TXT_MOOD
    /\ update.chat_id = 1
    /\ decision = "CommandResult"
    /\ 1 \in DOMAIN chat_mood
    /\ chat_mood[1] = MOOD_LEM_LINH
    /\ outbox[1].reply = <<"Mood hien tai: ">> \o MOOD_LEM_LINH
                         \o <<". Mood kha dung: ">> \o MOOD_OPTIONS_TEXT \o <<".">>

\* C7: a message of a human sender that is nothing but a mention of the bot
\* is answered with the MentionPing reply in one send, in both auto-reply
\* modes and muted or not; no command runs (mute, mood and mode stay), the
\* mute is not looked at and no Groq request is made.
C7_BarePing ==
    [][(Handles /\ HumanText(update') /\ BOT_USERNAME = USERNAME_BOT
          /\ update'.text \in {TXT_PING, TXT_PING_SPACED})
         => /\ decision' = "MentionPing"
            /\ Len(outbox') = 1
            /\ outbox'[1].reply = MENTION_PING_REPLY
            /\ groq_requests' = <<>>
            /\ mute_check' = "not_called"
            /\ chat_mute_until' = chat_mute_until
            /\ chat_mood' = chat_mood
            /\ chat_auto_reply_mode' = chat_auto_reply_mode]_vars

\* A bare ping was answered in a muted chat that is in mention-only mode.
C7_Witness ==
    /\ decision = "MentionPing"
    /\ Len(outbox) = 1
    /\ get_auto_reply_mode(1) = AUTO_REPLY_MENTION
    /\ 1 \in DOMAIN chat_mute_until
    /\ now < chat_mute_until[1]

\* C8: in a chat in mention-only mode, a message of a human sender without a
\* mention whose (stripped) text does not start with "/" is ignored: no send,
\* no Groq request, no history entry; /alive is still answered with the
\* uptime reply.
C8_MentionOnly ==
    [][(Handles /\ HumanText(update') /\ NoMention(update'.text)
          /\ get_auto_reply_mode(update'.chat_id) = AUTO_REPLY_MENTION)
         => /\ ~StartsWith(Strip(update'.text), <<"/">>)
                 => /\ decision' = "Ignored"
                    /\ outbox' = <<>>
                    /\ groq_requests' = <<>>
                    /\ chat_history' = chat_history
            /\ (update'.text = TXT_ALIVE /\ Complete(update'))
                 => /\ decision' = "CommandResult"
                    /\ Len(outbox') = 1
                    /\ outbox'[1].reply[1] = "Bot van song khoe ("]_vars

\* /alive was answered in a chat that is in mention-only mode.
C8_Witness ==
    /\ decision = "CommandResult"
    /\ update.text = TXT_ALIVE
    /\ get_auto_reply_mode(1) = AUTO_REPLY_MENTION
    /\ outbox[1].reply[1] = "Bot van song khoe ("

\* C9: when the chain reaches the local-intent step (is_chat_muted was called
\* and returned false) with a text that holds a time or date keyword, in any
\* case of letters, the decision is LocalIntent and no Groq request is made.
C9_LocalIntentNoRemote ==
    (~Idle /\ mute_check = "not_muted"
       /\ \/ AnyKeywordIn(time_keywords, Lower(EffectiveText(update)))
          \/ AnyKeywordIn(day_keywords, Lower(EffectiveText(update))))
      => /\ decision = "LocalIntent"
         /\ Len(outbox) = 1
         /\ groq_requests = <<>>

\* "May gio roi" was answered locally.
C9_Witness ==
    /\ decision = "LocalIntent"
    /\ update.text = TXT_TIME
    /\ groq_requests = <<>>

\* C10: when the Groq call times out, fails in any other way or returns an
\* empty or blank text, the decision is Fallback (get_groq_response returned
\* None and raised nothing), made after one request, and the one reply sent
\* is a non-empty element of FALLBACK_MESSAGES.
C10_FallbackOnFailure ==
    (~Idle /\ \/ groq_response.kind \in {"timeout", "request_error", "unexpected"}
              \/ /\ groq_response.kind = "ok"
                 /\ groq_response.content \in {TXT_EMPTY, TXT_BLANK})
      => /\ decision = "Fallback"
         /\ Len(groq_requests) = 1
         /\ Len(outbox) = 1
         /\ \E i \in 1..Len(FALLBACK_MESSAGES) : outbox[1].reply = FALLBACK_MESSAGES[i]
         /\ outbox[1].reply # <<>>
         /\ \A i \in 1..Len(outbox[1].reply) : outbox[1].reply[i] # ""

\* The call timed out and the seventh fallback message was sent.
C10_Witness ==
    /\ decision = "Fallback"
    /\ groq_response.kind = "timeout"
    /\ outbox[1].reply = FALLBACK_MESSAGES[7]

\* C11: a message of a human sender that replies to a message of the bot and
\* whose text is empty or blank is answered with the MentionPing reply, in one
\* send, as a bare mention is.
C11_ReplyToBotPing ==
    (/\ ~Idle
     /\ HumanText(update)
     /\ BOT_USER_ID # 0
     /\ update.reply_to_user_id = BOT_USER_ID
     /\ ~Truthy(Strip(update.text)))
      => /\ decision \in {"MentionPing", "ReplyPing"}
         /\ Len(outbox) = 1
         /\ outbox[1].reply = MENTION_PING_REPLY

\* The chat is muted now.
MutedNow(chat_id) ==
    chat_id \in DOMAIN chat_mute_until /\ now < chat_mute_until[chat_id]

\* The text is one of the commands the router knows.
RecognisedCommand(text) ==
    /\ StartsWith(text, <<"/">>)
    /\ CommandOf(Split(text)) \in {CMD_ALIVE, CMD_HELP, CMD_START, CMD_MUTE, CMD_MOOD,
                                   CMD_AUTOREPLY}

\* C12: while a chat is muted, a recognised command (/alive, /help, /mute,
\* /mood, /autoreply) is still answered with a CommandResult, and a message
\* that is no command makes no send and no Groq request.
C12_CommandsBeforeMute ==
    [][(Handles /\ HumanText(update') /\ Complete(update')
          /\ MutedNow(update'.chat_id))
         => LET text == EffectiveText(update')
            IN  /\ RecognisedCommand(text)
                     => decision' = "CommandResult" /\ Len(outbox') = 1
                /\ (Truthy(text) /\ ~RecognisedCommand(text))
                     => outbox' = <<>> /\ groq_requests' = <<>>]_vars

\* C13: the webhook view answers every POST with HTTP 200, whatever the
\* request holds and whatever its handling does.
C13_WebhookAlways200 == http_status \in {0, 200}

\* C14: no error raised while an update is processed leaves handle_update;
\* the polling loop, after an update (failed or not), goes on with the rest of
\* the batch, and after a failed fetch is still polling, with its offset kept
\* and no update to handle, so that the next step is the next fetch.
C14_ErrorsContained ==
    /\ [](decision # "Escaped")
    /\ [][(serving = "polling" /\ Handles)
            => serving' = "polling" /\ batch' = Tail(batch)]_vars
    /\ [][fetch' \in {"error", "not_ok"}
            => serving' = "polling" /\ offset' = offset /\ batch' = <<>>]_vars

\* An update of a batch made the chain raise, the error stayed inside
\* handle_update, and the loop still has the next update of the batch to handle.
C14_Witness ==
    /\ serving = "polling"
    /\ decision = "Raised"
    /\ update.text = TXT_MUTE_HUGE
    /\ Len(batch) = 1

\* C19: when the bot token or the API key is missing, neither front end
\* serves: no fetch is made, no POST answered, no update handled.
C19_NoServingWithoutConfig ==
    (~TELEGRAM_TOKEN \/ ~GROQ_API_KEY)
      => /\ serving \in {"none", "exited"}
         /\ fetch = "none" /\ offset = 0 /\ batch = <<>>
         /\ http_status = 0
         /\ Idle /\ outbox = <<>> /\ groq_requests = <<>>

\* A front end was started with the token but without the API key, and gave up.
C19_Witness == serving = "exited" /\ TELEGRAM_TOKEN /\ ~GROQ_API_KEY

\* C15: handling one message issues at most one Groq request; a request is
\* issued exactly when the decision is RemoteReply or Fallback, and when the
\* one request times out or fails, no second request follows and the pass
\* ends with the Fallback decision and its one send.
C15_SingleAttempt ==
    [][Handles
         => /\ Len(groq_requests') <= 1
            /\ Len(groq_requests') = 1 <=> decision' \in {"RemoteReply", "Fallback"}
            /\ (/\ groq_requests' # <<>>
                /\ groq_response'.kind \in {"timeout", "request_error", "unexpected"})
                 => /\ decision' = "Fallback"
                    /\ Len(outbox') = 1
                    /\ \E i \in 1..Len(FALLBACK_MESSAGES) :
                          outbox'[1].reply = FALLBACK_MESSAGES[i]]_vars

\* The one request failed with a request error, and the fallback was sent.
C15_Witness ==
    /\ decision = "Fallback"
    /\ groq_response.kind = "request_error"
    /\ Len(groq_requests) = 1
    /\ Len(outbox) = 1

\* The entry that a turn records for a text.
Entry(role, content) == [role |-> role, content |-> content]

\* C16: with two updates of one chat handled concurrently, the user entry and
\* the assistant entry of one message are adjacent in the chat's history: when
\* a thread appends its assistant entry, the entry before it is the user entry
\* of the same message.
C16_TurnAtomic ==
    [][\A t \in THREADS :
         (/\ threads[t].pc = "assistant_append"
          /\ threads'[t].pc = "assistant_trim"
          /\ Truthy(threads[t].user_text))
           => LET history == chat_history'[threads[t].chat_id]
              IN  /\ Len(history) >= 2
                  /\ history[Len(history)] = Entry("assistant", threads[t].bot_text)
                  /\ history[Len(history) - 1] = Entry("user", threads[t].user_text)]_vars

\* What the store holds for one chat: for each dict, the value at the chat's
\* key, or nothing.
ChatState(c) ==
    <<IF c \in DOMAIN chat_mute_until THEN <<chat_mute_until[c]>> ELSE <<>>,
      IF c \in DOMAIN chat_mood THEN <<chat_mood[c]>> ELSE <<>>,
      IF c \in DOMAIN chat_auto_reply_mode THEN <<chat_auto_reply_mode[c]>> ELSE <<>>,
      IF c \in DOMAIN chat_history THEN <<chat_history[c]>> ELSE <<>> >>

\* The chat of the message that thread t is handling in this step.
Acting(t) == IF threads[t].pc = "idle" THEN threads'[t].chat_id ELSE threads[t].chat_id

\* C17: a step of a thread that handles a message of chat A, whatever the
\* other thread is in the middle of, leaves the mute-until, mood, auto-reply
\* mode and history of every other chat B as they are.
C17_ChatIsolation ==
    [][\A t \in THREADS : \A b \in CHATS :
         (threads'[t] # threads[t] /\ Acting(t) # b) => ChatState(b)' = ChatState(b)]_vars

\* Chat 1 was muted and chat 2 was given a mood while the other chat's message
\* was being recorded: both threads are inside record_conversation_turn, and
\* each chat holds only what its own message wrote.
C17_Witness ==
    /\ threads[1].chat_id = 1 /\ threads[1].pc = "assistant_append"
    /\ threads[2].chat_id = 2 /\ threads[2].pc = "user_trim"
    /\ 1 \in DOMAIN chat_mute_until /\ 2 \notin DOMAIN chat_mute_until
    /\ 2 \in DOMAIN chat_mood /\ 1 \notin DOMAIN chat_mood
    /\ Len(chat_history[1]) = 1 /\ Len(chat_history[2]) = 1

\* C18: a valid mood-set command that names the mood which the chat's
\* previous mood-set command named stores the same mood again, changes no
\* chat's mood, and is answered with the confirmation text the previous one
\* was answered with.
C18_MoodSetIdempotent ==
    [][(/\ Handles
        /\ update'.text \in {TXT_MOOD_VUI, TXT_MOOD_LEM_LINH, TXT_MOOD_CAU_GAT}
        /\ update'.chat_id \in DOMAIN mood_cmd
        /\ mood_cmd[update'.chat_id].mood = MoodNamed(update'.text))
         => LET c == update'.chat_id
            IN  /\ chat_mood'[c] = mood_cmd[c].mood
                /\ chat_mood' = chat_mood
                /\ decision' = "CommandResult"
                /\ Len(outbox') = 1
                /\ outbox'[1].reply = mood_cmd[c].reply]_vars

\* "/MOOD cau_gat" was handled in chat 2 for the second time in a row.
C18_Witness ==
    /\ ~Idle
    /\ update.text = TXT_MOOD_CAU_GAT
    /\ update.chat_id = 2
    /\ 2 \in DOMAIN mood_cmd
    /\ mood_cmd[2].again
    /\ chat_mood[2] = MOOD_CAU_GAT

\* The minutes each successful /mute command of the catalogue asks for (the
\* default of line 299 when it names none).
MinutesNamed(text) ==
    IF text = TXT_MUTE THEN 10 ELSE IF text = TXT_MUTE_1 THEN 1 ELSE 2

\* C20: a successful /mute m handled at time t leaves the chat's mute-until at
\* t + m minutes, whatever mute-until the chat had: the time left of an
\* earlier mute is not added, and no other chat's mute-until changes.
C20_MuteOverwrites ==
    [][(Handles /\ update'.text \in {TXT_MUTE, TXT_MUTE_1, TXT_MUTE_2})
         => LET c == update'.chat_id
            IN  /\ decision' = "CommandResult"
                /\ DOMAIN chat_mute_until' = DOMAIN chat_mute_until \cup {c}
                /\ chat_mute_until'[c] = now + MinutesNamed(update'.text) * 60
                /\ mute_cmd'[c].before = DictGet(chat_mute_until, c, 0)]_vars

\* /mute 1 was handled while a longer mute still ran: the new mute-until is
\* one minute from now, earlier than the one it replaced.
C20_Witness ==
    /\ decision = "CommandResult"
    /\ update.text = TXT_MUTE_1
    /\ 1 \in DOMAIN mute_cmd
    /\ mute_cmd[1].before > now + 60
    /\ chat_mute_until[1] = now + 60

\* The history that the Groq request of the call in progress carries: its
\* messages without the system message and the latest user message.
HandedHistory == SubSeq(groq_requests[1], 2, Len(groq_requests[1]) - 1)

\* The roles of h alternate, entry by entry.
Alternates(h) == \A i \in 1..(Len(h) - 1) : h[i].role # h[i + 1].role

\* C21 as stated: for every history length above 0, the history handed to
\* Groq is made of complete pairs: even length, a user entry first, the roles
\* alternating.
C21_HistoryPairs ==
    (groq_requests # <<>> /\ CHAT_HISTORY_LENGTH > 0)
      => /\ Len(HandedHistory) % 2 = 0
         /\ \A i \in 1..Len(HandedHistory) :
              HandedHistory[i].role = IF i % 2 = 1 THEN "user" ELSE "assistant"

\* C21: for every history length above 0 the history handed to Groq holds at
\* most CHAT_HISTORY_LENGTH entries of user and assistant roles that
\* alternate, oldest first, the last one an assistant entry; when
\* CHAT_HISTORY_LENGTH is even they are complete pairs: even length, a user
\* entry first.
C21_HistoryAlternates ==
    (groq_requests # <<>> /\ CHAT_HISTORY_LENGTH > 0)
      => /\ Len(HandedHistory) <= CHAT_HISTORY_LENGTH
         /\ \A i \in 1..Len(HandedHistory) : HandedHistory[i].role \in {"user", "assistant"}
         /\ Alternates(HandedHistory)
         /\ HandedHistory # <<>> => HandedHistory[Len(HandedHistory)].role = "assistant"
         /\ CHAT_HISTORY_LENGTH % 2 = 0
              => /\ Len(HandedHistory) % 2 = 0
                 /\ HandedHistory # <<>> => HandedHistory[1].role = "user"

\* With room for two entries, the request for "yo" carried the pair of the
\* turn of "hi".
C21_Witness ==
    /\ groq_requests # <<>>
    /\ CHAT_HISTORY_LENGTH = 2
    /\ update.text = TXT_YO
    /\ Len(HandedHistory) = 2
    /\ HandedHistory[1] = [role |-> "user", content |-> TXT_HI]
    /\ HandedHistory[2].role = "assistant"

\* What handle_update does with the update u when Groq answers as g, the
\* fallback picked is the one at pick and the send succeeds.
Delivered(u, g, pick) == handle_update(u, [groq |-> g, pick |-> pick, send_ok |-> TRUE])

\* C22: a send that fails is the only send of the call, and the call ends as
\* it does when the send succeeds: the same decision, the same reply, the
\* same Groq request, the same turn in the history, the same mute-until, mood
\* and auto-reply mode.
C22_SendFailureNoEffect ==
    [][(Handles /\ outbox' # <<>> /\ ~outbox'[1].delivered)
         => /\ Len(outbox') = 1
            /\ \E pick \in AllPicks :
                 LET ok == Delivered(update', groq_response', pick)
                 IN  /\ decision' = ok.decision
                     /\ outbox' = <<[ok.outbox[1] EXCEPT !.delivered = FALSE]>>
                     /\ groq_requests' = ok.groq_requests
                     /\ chat_history' = ok.chat_history
                     /\ chat_mute_until' = ok.chat_mute_until
                     /\ chat_mood' = ok.chat_mood
                     /\ chat_auto_reply_mode' = ok.chat_auto_reply_mode]_vars

\* The confirmation of /mute 1 could not be sent: the chat is muted and the
\* turn is in its history all the same.
C22_Witness ==
    /\ decision = "CommandResult"
    /\ update.text = TXT_MUTE_1
    /\ Len(outbox) = 1
    /\ ~outbox[1].delivered
    /\ 1 \in DOMAIN chat_mute_until
    /\ 1 \in DOMAIN chat_history
    /\ chat_history[1] = <<[role |-> "assistant", content |-> outbox[1].reply]>>

\* C23: the offset of the polling loop never decreases; a fetch is made only
\* when every update of the batch before was handled; after a fetch that
\* returned updates the offset is the last update's id plus one, after an
\* empty or failed fetch it is what it was; and each call of handle_update in
\* the loop takes the first update of the batch not handled yet, which is
\* then off the batch.
C23_OffsetCursor ==
    /\ [][offset' >= offset]_vars
    /\ [][fetch' # "none"
            => /\ batch = <<>>
               /\ IF fetch' = "ok" /\ batch' # <<>>
                  THEN /\ offset' = batch'[Len(batch')].update_id + 1
                       /\ offset' > offset
                  ELSE offset' = offset /\ batch' = <<>>]_vars
    /\ [][(serving = "polling" /\ Handles)
            => /\ batch # <<>>
               /\ update' = Head(batch).update
               /\ batch' = Tail(batch)
               /\ offset' = offset]_vars

\* The second fetch that returned updates: two of them, numbered 3 and 4, and
\* the offset is 5.
C23_Witness ==
    /\ serving = "polling"
    /\ fetch = "ok"
    /\ Len(batch) = 2
    /\ batch[1].update_id = 3
    /\ offset = 5

\* C24: in a chat in mention-only mode, a message of a human sender that
\* does not mention the bot is answered only as a CommandResult: it is never
\* answered as LocalIntent, RemoteReply or Fallback, and no Groq request is
\* made for it.
C24_MentionOnlyCommandsOnly ==
    [][(Handles /\ HumanText(update') /\ NoMention(update'.text)
          /\ get_auto_reply_mode(update'.chat_id) = AUTO_REPLY_MENTION)
         => /\ outbox' # <<>> => decision' = "CommandResult"
            /\ decision' \notin {"LocalIntent", "RemoteReply", "Fallback"}
            /\ groq_requests' = <<>>]_vars

\* C25: a message that ends as non-text, bot sender, ignored in mention-only
\* mode, missing field or muted leaves the four dicts as they are, keys
\* included: no history entry, no change of mute-until, mood or auto-reply
\* mode in any chat; and nothing is sent.
C25_NoActionNoChange ==
    [][(Handles
          /\ decision' \in {"NonText", "BotSender", "Ignored", "MissingField", "Muted"})
         => /\ chat_history' = chat_history
            /\ chat_mute_until' = chat_mute_until
            /\ chat_mood' = chat_mood
            /\ chat_auto_reply_mode' = chat_auto_reply_mode
            /\ outbox' = <<>>
            /\ groq_requests' = <<>>]_vars

\* A message was dropped as Muted in a chat that holds a history entry and a
\* running mute: both are still there.
C25_Witness ==
    /\ decision = "Muted"
    /\ mute_check = "muted"
    /\ 1 \in DOMAIN chat_mute_until
    /\ now < chat_mute_until[1]
    /\ 1 \in DOMAIN chat_history
    /\ Len(chat_history[1]) = 1

====
